---- MODULE Spec2Model ----
(***************************************************************************)
(* A model of src/main.py: the PLY lexer rules, the LALR(1) parser that    *)
(* PLY builds from the grammar rules, and the tree-walking evaluator.      *)
(*                                                                         *)
(* Python tuples are TLA+ tuples of the same shape; a Python index k is    *)
(* the TLA+ index k+1.  A Python value that the evaluator can produce is   *)
(* a record [kind, val]: kind "int" (val the integer), kind "tuple" (val   *)
(* the tuple), or the exception that was raised: kind "NameError" (val     *)
(* the symbol) or kind "TypeError" (val the operator that rejected its     *)
(* operands), kind "IndexError" (val the index) for a list index out of    *)
(* range.                                                                  *)
(*                                                                         *)
(* The module builds the lexer and the parser, parses one text and prints  *)
(* the tree; it defines evaluate() but never calls it.  The lexer, the     *)
(* parser and the evaluator are therefore three machines, each started on  *)
(* its own inputs: SpecLex, SpecParse and SpecEval.                        *)
(***************************************************************************)
EXTENDS Integers, Sequences, FiniteSets, TLC

VARIABLES
    \* lexer: the PLY lexer object fed with a source text
    lexdata,        \* the source text, a sequence of characters
    lexpos,         \* index (from 0) of the next character to scan
    lineno,         \* line counter kept by t_ignore_newline
    tokens,         \* tokens emitted so far, each <<type, value>>
    illegal,        \* characters t_error has reported, in order
    lpc,            \* "scan" while tokens are requested, then "done", or
                    \* "ValueError" when int() of t_NUMBER raised
    \* parser: the loop of parser.parse() over a token sequence
    input,          \* the tokens the lexer hands to the parser
    tokpos,         \* number of tokens taken from the input
    statestack,     \* stack of LR states
    symstack,       \* stack of grammar symbols, each <<type, value>>
    lookahead,      \* current lookahead symbol, NoToken for None
    lookaheadstack, \* pushed-back lookahead symbols
    errorcount,     \* shifts left before errors are reported again
    syntax_errors,  \* tokens p_error has printed, in order
    ppc,            \* "off", "parse", "done"
    presult,        \* what parse() returned or raised
    \* evaluator: evaluate() and the loop of populateSymbols()
    ast,            \* the argument of evaluate()
    epc,            \* "idle", "call", "populate", "done"
    i,              \* loop index of populateSymbols
    symbol_table,   \* the dict built by populateSymbols
    result          \* value returned, or exception raised, by evaluate()

evalvars == <<ast, epc, i, symbol_table, result>>
lexvars == <<lexdata, lexpos, lineno, tokens, illegal, lpc>>
parsevars == <<input, tokpos, statestack, symstack, lookahead, lookaheadstack,
               errorcount, syntax_errors, ppc, presult>>
vars == <<lexvars, parsevars, evalvars>>

\* ------------------------------------------------------------------------
\* Bounds of the model
\* ------------------------------------------------------------------------
MaxNum == 1
MaxAssign == 2

Names == {"x", "y"}

\* ------------------------------------------------------------------------
\* Lexer (src/main.py 40-86)
\* ------------------------------------------------------------------------
t_ignore == {" ", "\t"}
AsciiDigits == {"0", "1", "2", "3", "4", "5", "6", "7", "8", "9"}
\* The characters \d matches in a str pattern: every Unicode decimal digit
\* (category Nd), not only 0-9.  A character outside ASCII is written by its
\* code point, "U+0663" being the one character ARABIC-INDIC DIGIT THREE.
\* Each row holds the digits 0..9 of one script in code point order.
DecimalDigitBlocks ==
    << <<"0", "1", "2", "3", "4", "5", "6", "7", "8", "9">>,
       <<"U+0660", "U+0661", "U+0662", "U+0663", "U+0664", "U+0665", "U+0666", "U+0667", "U+0668", "U+0669">>,
       <<"U+06F0", "U+06F1", "U+06F2", "U+06F3", "U+06F4", "U+06F5", "U+06F6", "U+06F7", "U+06F8", "U+06F9">>,
       <<"U+07C0", "U+07C1", "U+07C2", "U+07C3", "U+07C4", "U+07C5", "U+07C6", "U+07C7", "U+07C8", "U+07C9">>,
       <<"U+0966", "U+0967", "U+0968", "U+0969", "U+096A", "U+096B", "U+096C", "U+096D", "U+096E", "U+096F">>,
       <<"U+09E6", "U+09E7", "U+09E8", "U+09E9", "U+09EA", "U+09EB", "U+09EC", "U+09ED", "U+09EE", "U+09EF">>,
       <<"U+0A66", "U+0A67", "U+0A68", "U+0A69", "U+0A6A", "U+0A6B", "U+0A6C", "U+0A6D", "U+0A6E", "U+0A6F">>,
       <<"U+0AE6", "U+0AE7", "U+0AE8", "U+0AE9", "U+0AEA", "U+0AEB", "U+0AEC", "U+0AED", "U+0AEE", "U+0AEF">>,
       <<"U+0B66", "U+0B67", "U+0B68", "U+0B69", "U+0B6A", "U+0B6B", "U+0B6C", "U+0B6D", "U+0B6E", "U+0B6F">>,
       <<"U+0BE6", "U+0BE7", "U+0BE8", "U+0BE9", "U+0BEA", "U+0BEB", "U+0BEC", "U+0BED", "U+0BEE", "U+0BEF">>,
       <<"U+0C66", "U+0C67", "U+0C68", "U+0C69", "U+0C6A", "U+0C6B", "U+0C6C", "U+0C6D", "U+0C6E", "U+0C6F">>,
       <<"U+0CE6", "U+0CE7", "U+0CE8", "U+0CE9", "U+0CEA", "U+0CEB", "U+0CEC", "U+0CED", "U+0CEE", "U+0CEF">>,
       <<"U+0D66", "U+0D67", "U+0D68", "U+0D69", "U+0D6A", "U+0D6B", "U+0D6C", "U+0D6D", "U+0D6E", "U+0D6F">>,
       <<"U+0DE6", "U+0DE7", "U+0DE8", "U+0DE9", "U+0DEA", "U+0DEB", "U+0DEC", "U+0DED", "U+0DEE", "U+0DEF">>,
       <<"U+0E50", "U+0E51", "U+0E52", "U+0E53", "U+0E54", "U+0E55", "U+0E56", "U+0E57", "U+0E58", "U+0E59">>,
       <<"U+0ED0", "U+0ED1", "U+0ED2", "U+0ED3", "U+0ED4", "U+0ED5", "U+0ED6", "U+0ED7", "U+0ED8", "U+0ED9">>,
       <<"U+0F20", "U+0F21", "U+0F22", "U+0F23", "U+0F24", "U+0F25", "U+0F26", "U+0F27", "U+0F28", "U+0F29">>,
       <<"U+1040", "U+1041", "U+1042", "U+1043", "U+1044", "U+1045", "U+1046", "U+1047", "U+1048", "U+1049">>,
       <<"U+1090", "U+1091", "U+1092", "U+1093", "U+1094", "U+1095", "U+1096", "U+1097", "U+1098", "U+1099">>,
       <<"U+17E0", "U+17E1", "U+17E2", "U+17E3", "U+17E4", "U+17E5", "U+17E6", "U+17E7", "U+17E8", "U+17E9">>,
       <<"U+1810", "U+1811", "U+1812", "U+1813", "U+1814", "U+1815", "U+1816", "U+1817", "U+1818", "U+1819">>,
       <<"U+1946", "U+1947", "U+1948", "U+1949", "U+194A", "U+194B", "U+194C", "U+194D", "U+194E", "U+194F">>,
       <<"U+19D0", "U+19D1", "U+19D2", "U+19D3", "U+19D4", "U+19D5", "U+19D6", "U+19D7", "U+19D8", "U+19D9">>,
       <<"U+1A80", "U+1A81", "U+1A82", "U+1A83", "U+1A84", "U+1A85", "U+1A86", "U+1A87", "U+1A88", "U+1A89">>,
       <<"U+1A90", "U+1A91", "U+1A92", "U+1A93", "U+1A94", "U+1A95", "U+1A96", "U+1A97", "U+1A98", "U+1A99">>,
       <<"U+1B50", "U+1B51", "U+1B52", "U+1B53", "U+1B54", "U+1B55", "U+1B56", "U+1B57", "U+1B58", "U+1B59">>,
       <<"U+1BB0", "U+1BB1", "U+1BB2", "U+1BB3", "U+1BB4", "U+1BB5", "U+1BB6", "U+1BB7", "U+1BB8", "U+1BB9">>,
       <<"U+1C40", "U+1C41", "U+1C42", "U+1C43", "U+1C44", "U+1C45", "U+1C46", "U+1C47", "U+1C48", "U+1C49">>,
       <<"U+1C50", "U+1C51", "U+1C52", "U+1C53", "U+1C54", "U+1C55", "U+1C56", "U+1C57", "U+1C58", "U+1C59">>,
       <<"U+A620", "U+A621", "U+A622", "U+A623", "U+A624", "U+A625", "U+A626", "U+A627", "U+A628", "U+A629">>,
       <<"U+A8D0", "U+A8D1", "U+A8D2", "U+A8D3", "U+A8D4", "U+A8D5", "U+A8D6", "U+A8D7", "U+A8D8", "U+A8D9">>,
       <<"U+A900", "U+A901", "U+A902", "U+A903", "U+A904", "U+A905", "U+A906", "U+A907", "U+A908", "U+A909">>,
       <<"U+A9D0", "U+A9D1", "U+A9D2", "U+A9D3", "U+A9D4", "U+A9D5", "U+A9D6", "U+A9D7", "U+A9D8", "U+A9D9">>,
       <<"U+A9F0", "U+A9F1", "U+A9F2", "U+A9F3", "U+A9F4", "U+A9F5", "U+A9F6", "U+A9F7", "U+A9F8", "U+A9F9">>,
       <<"U+AA50", "U+AA51", "U+AA52", "U+AA53", "U+AA54", "U+AA55", "U+AA56", "U+AA57", "U+AA58", "U+AA59">>,
       <<"U+ABF0", "U+ABF1", "U+ABF2", "U+ABF3", "U+ABF4", "U+ABF5", "U+ABF6", "U+ABF7", "U+ABF8", "U+ABF9">>,
       <<"U+FF10", "U+FF11", "U+FF12", "U+FF13", "U+FF14", "U+FF15", "U+FF16", "U+FF17", "U+FF18", "U+FF19">>,
       <<"U+104A0", "U+104A1", "U+104A2", "U+104A3", "U+104A4", "U+104A5", "U+104A6", "U+104A7", "U+104A8", "U+104A9">>,
       <<"U+10D30", "U+10D31", "U+10D32", "U+10D33", "U+10D34", "U+10D35", "U+10D36", "U+10D37", "U+10D38", "U+10D39">>,
       <<"U+11066", "U+11067", "U+11068", "U+11069", "U+1106A", "U+1106B", "U+1106C", "U+1106D", "U+1106E", "U+1106F">>,
       <<"U+110F0", "U+110F1", "U+110F2", "U+110F3", "U+110F4", "U+110F5", "U+110F6", "U+110F7", "U+110F8", "U+110F9">>,
       <<"U+11136", "U+11137", "U+11138", "U+11139", "U+1113A", "U+1113B", "U+1113C", "U+1113D", "U+1113E", "U+1113F">>,
       <<"U+111D0", "U+111D1", "U+111D2", "U+111D3", "U+111D4", "U+111D5", "U+111D6", "U+111D7", "U+111D8", "U+111D9">>,
       <<"U+112F0", "U+112F1", "U+112F2", "U+112F3", "U+112F4", "U+112F5", "U+112F6", "U+112F7", "U+112F8", "U+112F9">>,
       <<"U+11450", "U+11451", "U+11452", "U+11453", "U+11454", "U+11455", "U+11456", "U+11457", "U+11458", "U+11459">>,
       <<"U+114D0", "U+114D1", "U+114D2", "U+114D3", "U+114D4", "U+114D5", "U+114D6", "U+114D7", "U+114D8", "U+114D9">>,
       <<"U+11650", "U+11651", "U+11652", "U+11653", "U+11654", "U+11655", "U+11656", "U+11657", "U+11658", "U+11659">>,
       <<"U+116C0", "U+116C1", "U+116C2", "U+116C3", "U+116C4", "U+116C5", "U+116C6", "U+116C7", "U+116C8", "U+116C9">>,
       <<"U+11730", "U+11731", "U+11732", "U+11733", "U+11734", "U+11735", "U+11736", "U+11737", "U+11738", "U+11739">>,
       <<"U+118E0", "U+118E1", "U+118E2", "U+118E3", "U+118E4", "U+118E5", "U+118E6", "U+118E7", "U+118E8", "U+118E9">>,
       <<"U+11950", "U+11951", "U+11952", "U+11953", "U+11954", "U+11955", "U+11956", "U+11957", "U+11958", "U+11959">>,
       <<"U+11C50", "U+11C51", "U+11C52", "U+11C53", "U+11C54", "U+11C55", "U+11C56", "U+11C57", "U+11C58", "U+11C59">>,
       <<"U+11D50", "U+11D51", "U+11D52", "U+11D53", "U+11D54", "U+11D55", "U+11D56", "U+11D57", "U+11D58", "U+11D59">>,
       <<"U+11DA0", "U+11DA1", "U+11DA2", "U+11DA3", "U+11DA4", "U+11DA5", "U+11DA6", "U+11DA7", "U+11DA8", "U+11DA9">>,
       <<"U+16A60", "U+16A61", "U+16A62", "U+16A63", "U+16A64", "U+16A65", "U+16A66", "U+16A67", "U+16A68", "U+16A69">>,
       <<"U+16AC0", "U+16AC1", "U+16AC2", "U+16AC3", "U+16AC4", "U+16AC5", "U+16AC6", "U+16AC7", "U+16AC8", "U+16AC9">>,
       <<"U+16B50", "U+16B51", "U+16B52", "U+16B53", "U+16B54", "U+16B55", "U+16B56", "U+16B57", "U+16B58", "U+16B59">>,
       <<"U+1D7CE", "U+1D7CF", "U+1D7D0", "U+1D7D1", "U+1D7D2", "U+1D7D3", "U+1D7D4", "U+1D7D5", "U+1D7D6", "U+1D7D7">>,
       <<"U+1D7D8", "U+1D7D9", "U+1D7DA", "U+1D7DB", "U+1D7DC", "U+1D7DD", "U+1D7DE", "U+1D7DF", "U+1D7E0", "U+1D7E1">>,
       <<"U+1D7E2", "U+1D7E3", "U+1D7E4", "U+1D7E5", "U+1D7E6", "U+1D7E7", "U+1D7E8", "U+1D7E9", "U+1D7EA", "U+1D7EB">>,
       <<"U+1D7EC", "U+1D7ED", "U+1D7EE", "U+1D7EF", "U+1D7F0", "U+1D7F1", "U+1D7F2", "U+1D7F3", "U+1D7F4", "U+1D7F5">>,
       <<"U+1D7F6", "U+1D7F7", "U+1D7F8", "U+1D7F9", "U+1D7FA", "U+1D7FB", "U+1D7FC", "U+1D7FD", "U+1D7FE", "U+1D7FF">>,
       <<"U+1E140", "U+1E141", "U+1E142", "U+1E143", "U+1E144", "U+1E145", "U+1E146", "U+1E147", "U+1E148", "U+1E149">>,
       <<"U+1E2F0", "U+1E2F1", "U+1E2F2", "U+1E2F3", "U+1E2F4", "U+1E2F5", "U+1E2F6", "U+1E2F7", "U+1E2F8", "U+1E2F9">>,
       <<"U+1E950", "U+1E951", "U+1E952", "U+1E953", "U+1E954", "U+1E955", "U+1E956", "U+1E957", "U+1E958", "U+1E959">>,
       <<"U+1FBF0", "U+1FBF1", "U+1FBF2", "U+1FBF3", "U+1FBF4", "U+1FBF5", "U+1FBF6", "U+1FBF7", "U+1FBF8", "U+1FBF9">> >>
Digits ==
    UNION {{DecimalDigitBlocks[b][k] : k \in 1..10} : b \in DOMAIN DecimalDigitBlocks}
Letters == {"a", "b", "c", "d", "e", "f", "g", "h", "i", "j", "k", "l", "m",
            "n", "o", "p", "q", "r", "s", "t", "u", "v", "w", "x", "y", "z",
            "A", "B", "C", "D", "E", "F", "G", "H", "I", "J", "K", "L", "M",
            "N", "O", "P", "Q", "R", "S", "T", "U", "V", "W", "X", "Y", "Z"}
NameStart == Letters \cup {"_"}
NameChar == Letters \cup AsciiDigits \cup {"_"}

\* the token type of each single-character rule t_PLUS ... t_SEMICOLON
OperatorType(c) ==
    CASE c = "+" -> "PLUS"
      [] c = "-" -> "MINUS"
      [] c = "*" -> "TIMES"
      [] c = "/" -> "DIVIDE"
      [] c = "(" -> "LPAREN"
      [] c = ")" -> "RPAREN"
      [] c = "=" -> "EQUALS"
      [] c = ";" -> "SEMICOLON"
Operators == {"+", "-", "*", "/", "(", ")", "=", ";"}

\* the character at Python index pos of data
CharAt(data, pos) == data[pos + 1]

\* end (exclusive, Python index) of the maximal run of characters of class
\* cls that starts at pos: the greedy match of \d+, [a-zA-Z0-9_]* and \n+
RECURSIVE RunEnd(_, _, _)
RunEnd(data, pos, cls) ==
    IF pos < Len(data) /\ CharAt(data, pos) \in cls
    THEN RunEnd(data, pos + 1, cls)
    ELSE pos

\* data[from:to]
Slice(data, from, to) == SubSeq(data, from + 1, to)

\* the matched text as a string
RECURSIVE Text(_)
Text(chars) == IF chars = <<>> THEN "" ELSE Head(chars) \o Text(Tail(chars))

\* the value int() gives a decimal digit of any script
DigitValue(c) ==
    (CHOOSE k \in 1..10 :
        \E b \in DOMAIN DecimalDigitBlocks : DecimalDigitBlocks[b][k] = c) - 1

\* the longest digit string int() converts (CPython's default limit); a
\* longer one raises ValueError
int_max_str_digits == 4300

\* int(t.value) of t_NUMBER, for a string within the limit
RECURSIVE int(_)
int(chars) ==
    IF chars = <<>> THEN 0
    ELSE int(SubSeq(chars, 1, Len(chars) - 1)) * 10 + DigitValue(chars[Len(chars)])

\* t_NAME reclassifying the keyword in any spelling of its case
NameType_AnyCase(value) ==
    IF value \in {"let", "LET", "Let", "lEt", "leT", "LEt", "LeT", "lET"}
    THEN "LET" ELSE "NAME"

\* t_NAME: the token type of a matched identifier
NameType(value) == IF value = "let" \/ value = "LET" THEN "LET" ELSE "NAME"

\* a token or grammar symbol: <<type, value>>
Token(type, value) == <<type, value>>
TypeOf(sym) == sym[1]
ValueOf(sym) == sym[2]

\* a character of t_ignore is passed over
LexIgnore ==
    /\ lpc = "scan"
    /\ lexpos < Len(lexdata)
    /\ CharAt(lexdata, lexpos) \in t_ignore
    /\ lexpos' = lexpos + 1
    /\ UNCHANGED <<lexdata, lineno, tokens, illegal, lpc>>
    /\ UNCHANGED <<parsevars, evalvars>>

\* t_NUMBER
LexNumber ==
    /\ lpc = "scan"
    /\ lexpos < Len(lexdata)
    /\ CharAt(lexdata, lexpos) \in Digits
    /\ LET end == RunEnd(lexdata, lexpos, Digits)
           value == Slice(lexdata, lexpos, end) IN
        /\ lexpos' = end
        /\ IF Len(value) > int_max_str_digits
           THEN /\ lpc' = "ValueError"
                /\ UNCHANGED tokens
           ELSE /\ tokens' = Append(tokens, Token("NUMBER", int(value)))
                /\ UNCHANGED lpc
    /\ UNCHANGED <<lexdata, lineno, illegal>>
    /\ UNCHANGED <<parsevars, evalvars>>

\* t_NAME
LexName ==
    /\ lpc = "scan"
    /\ lexpos < Len(lexdata)
    /\ CharAt(lexdata, lexpos) \in NameStart
    /\ LET end == RunEnd(lexdata, lexpos + 1, NameChar)
           value == Text(Slice(lexdata, lexpos, end)) IN
        /\ tokens' = Append(tokens, Token(NameType(value), value))
        /\ lexpos' = end
    /\ UNCHANGED <<lexdata, lineno, illegal, lpc>>
    /\ UNCHANGED <<parsevars, evalvars>>

\* t_ignore_newline
LexNewline ==
    /\ lpc = "scan"
    /\ lexpos < Len(lexdata)
    /\ CharAt(lexdata, lexpos) = "\n"
    /\ LET end == RunEnd(lexdata, lexpos, {"\n"}) IN
        /\ lineno' = lineno + (end - lexpos)
        /\ lexpos' = end
    /\ UNCHANGED <<lexdata, tokens, illegal, lpc>>
    /\ UNCHANGED <<parsevars, evalvars>>

\* t_PLUS, t_MINUS, t_TIMES, t_DIVIDE, t_LPAREN, t_RPAREN, t_EQUALS, t_SEMICOLON
LexOperator ==
    /\ lpc = "scan"
    /\ lexpos < Len(lexdata)
    /\ CharAt(lexdata, lexpos) \in Operators
    /\ LET c == CharAt(lexdata, lexpos) IN
        tokens' = Append(tokens, Token(OperatorType(c), c))
    /\ lexpos' = lexpos + 1
    /\ UNCHANGED <<lexdata, lineno, illegal, lpc>>
    /\ UNCHANGED <<parsevars, evalvars>>

\* t_error giving up on the rest of the input instead of skipping
t_error_Abort ==
    /\ lpc = "scan"
    /\ lexpos < Len(lexdata)
    /\ CharAt(lexdata, lexpos) \notin
            t_ignore \cup Digits \cup NameStart \cup {"\n"} \cup Operators
    /\ illegal' = Append(illegal, CharAt(lexdata, lexpos))
    /\ lpc' = "done"
    /\ UNCHANGED <<lexdata, lexpos, lineno, tokens>>
    /\ UNCHANGED <<parsevars, evalvars>>

\* t_error: no rule matches at lexpos
t_error ==
    /\ lpc = "scan"
    /\ lexpos < Len(lexdata)
    /\ CharAt(lexdata, lexpos) \notin
            t_ignore \cup Digits \cup NameStart \cup {"\n"} \cup Operators
    /\ illegal' = Append(illegal, CharAt(lexdata, lexpos))
    /\ lexpos' = lexpos + 1
    /\ UNCHANGED <<lexdata, lineno, tokens, lpc>>
    /\ UNCHANGED <<parsevars, evalvars>>

\* end of input: the lexer returns no further token
LexEnd ==
    /\ lpc = "scan"
    /\ lexpos >= Len(lexdata)
    /\ lpc' = "done"
    /\ UNCHANGED <<lexdata, lexpos, lineno, tokens, illegal>>
    /\ UNCHANGED <<parsevars, evalvars>>


\* ------------------------------------------------------------------------
\* Parser (src/main.py 94-197)
\* ------------------------------------------------------------------------
\* The grammar rules in the order yacc() numbers them; production 0 is the
\* augmented start rule S' -> program.
Productions ==
    << [name |-> "program", len |-> 2],          \* 1  assignment_list expression
       [name |-> "program", len |-> 1],          \* 2  expression
       [name |-> "assignment_list", len |-> 2],  \* 3  assignment SEMICOLON
       [name |-> "assignment_list", len |-> 3],  \* 4  assignment SEMICOLON assignment_list
       [name |-> "assignment", len |-> 4],       \* 5  LET NAME EQUALS expression
       [name |-> "expression", len |-> 3],       \* 6  term PLUS term
       [name |-> "expression", len |-> 3],       \* 7  term MINUS term
       [name |-> "expression", len |-> 1],       \* 8  term
       [name |-> "term", len |-> 3],             \* 9  factor TIMES factor
       [name |-> "term", len |-> 3],             \* 10 factor DIVIDE factor
       [name |-> "term", len |-> 1],             \* 11 factor
       [name |-> "factor", len |-> 1],           \* 12 NAME
       [name |-> "factor", len |-> 1],           \* 13 NUMBER
       [name |-> "factor", len |-> 2],           \* 14 PLUS factor
       [name |-> "factor", len |-> 2],           \* 15 MINUS factor
       [name |-> "factor", len |-> 3] >>         \* 16 LPAREN expression RPAREN

\* The grammar rule functions: p[k] is the value of the k-th symbol of the
\* right-hand side, the result is what the function stores in p[0].
p_program_withassignments(p) == <<"assignments", p[1], p[2]>>
p_program_noassignments(p) == p[1]
p_assignment_listsingle(p) == p[1]
\* the list built with the later assignments first
p_assignment_listmultiple_Reversed(p) == p[3] \o p[1]
p_assignment_listmultiple(p) == p[1] \o p[3]
p_assignment(p) == <<p[2], p[4]>>
p_expression(p) == <<"binop", p[2], p[1], p[3]>>
p_expression_term(p) == p[1]
p_term(p) == <<"binop", p[2], p[1], p[3]>>
p_term_factor(p) == p[1]
p_factor_name(p) == <<"name", p[1]>>
p_factor_number(p) == <<"number", p[1]>>
p_factor_unary(p) == <<"unary", p[1], p[2]>>
p_factor_grouped(p) == <<"grouped", p[2]>>

\* the function bound to production n
Callable(n, p) ==
    CASE n = 1 -> p_program_withassignments(p)
      [] n = 2 -> p_program_noassignments(p)
      [] n = 3 -> p_assignment_listsingle(p)
      [] n = 4 -> p_assignment_listmultiple(p)
      [] n = 5 -> p_assignment(p)
      [] n \in {6, 7} -> p_expression(p)
      [] n = 8 -> p_expression_term(p)
      [] n \in {9, 10} -> p_term(p)
      [] n = 11 -> p_term_factor(p)
      [] n = 12 -> p_factor_name(p)
      [] n = 13 -> p_factor_number(p)
      [] n \in {14, 15} -> p_factor_unary(p)
      [] n = 16 -> p_factor_grouped(p)

\* The LALR(1) table yacc() builds from the grammar rules of lines 94-186:
\* action[state][token type] is a state to shift to (> 0), minus the number
\* of a production to reduce by (< 0) or 0 to accept; goto[state][nonterminal]
\* is the state entered after a reduction.  States are numbered from 0.
LRTable ==
    [action |-> <<
        \* 0: S' -> . program
        ("LET" :> 5 @@ "LPAREN" :> 12 @@ "MINUS" :> 11 @@ "NAME" :> 8 @@
         "NUMBER" :> 9 @@ "PLUS" :> 10),
        \* 1: S' -> program .
        ("$end" :> 0),
        \* 2: program -> assignment_list . expression
        ("LPAREN" :> 12 @@ "MINUS" :> 11 @@ "NAME" :> 8 @@ "NUMBER" :> 9 @@
         "PLUS" :> 10),
        \* 3: program -> expression .
        ("$end" :> -2),
        \* 4: assignment_list -> assignment . SEMICOLON; assignment_list -> assignment . SEMICOLON assignment_list
        ("SEMICOLON" :> 14),
        \* 5: assignment -> LET . NAME EQUALS expression
        ("NAME" :> 15),
        \* 6: expression -> term . PLUS term; expression -> term . MINUS term; expression -> term .
        ("$end" :> -8 @@ "MINUS" :> 17 @@ "PLUS" :> 16 @@ "RPAREN" :> -8 @@
         "SEMICOLON" :> -8),
        \* 7: term -> factor . TIMES factor; term -> factor . DIVIDE factor; term -> factor .
        ("$end" :> -11 @@ "DIVIDE" :> 19 @@ "MINUS" :> -11 @@
         "PLUS" :> -11 @@ "RPAREN" :> -11 @@ "SEMICOLON" :> -11 @@
         "TIMES" :> 18),
        \* 8: factor -> NAME .
        ("$end" :> -12 @@ "DIVIDE" :> -12 @@ "MINUS" :> -12 @@
         "PLUS" :> -12 @@ "RPAREN" :> -12 @@ "SEMICOLON" :> -12 @@
         "TIMES" :> -12),
        \* 9: factor -> NUMBER .
        ("$end" :> -13 @@ "DIVIDE" :> -13 @@ "MINUS" :> -13 @@
         "PLUS" :> -13 @@ "RPAREN" :> -13 @@ "SEMICOLON" :> -13 @@
         "TIMES" :> -13),
        \* 10: factor -> PLUS . factor
        ("LPAREN" :> 12 @@ "MINUS" :> 11 @@ "NAME" :> 8 @@ "NUMBER" :> 9 @@
         "PLUS" :> 10),
        \* 11: factor -> MINUS . factor
        ("LPAREN" :> 12 @@ "MINUS" :> 11 @@ "NAME" :> 8 @@ "NUMBER" :> 9 @@
         "PLUS" :> 10),
        \* 12: factor -> LPAREN . expression RPAREN
        ("LPAREN" :> 12 @@ "MINUS" :> 11 @@ "NAME" :> 8 @@ "NUMBER" :> 9 @@
         "PLUS" :> 10),
        \* 13: program -> assignment_list expression .
        ("$end" :> -1),
        \* 14: assignment_list -> assignment SEMICOLON .; assignment_list -> assignment SEMICOLON . assignment_list
        ("LET" :> 5 @@ "LPAREN" :> -3 @@ "MINUS" :> -3 @@ "NAME" :> -3 @@
         "NUMBER" :> -3 @@ "PLUS" :> -3),
        \* 15: assignment -> LET NAME . EQUALS expression
        ("EQUALS" :> 24),
        \* 16: expression -> term PLUS . term
        ("LPAREN" :> 12 @@ "MINUS" :> 11 @@ "NAME" :> 8 @@ "NUMBER" :> 9 @@
         "PLUS" :> 10),
        \* 17: expression -> term MINUS . term
        ("LPAREN" :> 12 @@ "MINUS" :> 11 @@ "NAME" :> 8 @@ "NUMBER" :> 9 @@
         "PLUS" :> 10),
        \* 18: term -> factor TIMES . factor
        ("LPAREN" :> 12 @@ "MINUS" :> 11 @@ "NAME" :> 8 @@ "NUMBER" :> 9 @@
         "PLUS" :> 10),
        \* 19: term -> factor DIVIDE . factor
        ("LPAREN" :> 12 @@ "MINUS" :> 11 @@ "NAME" :> 8 @@ "NUMBER" :> 9 @@
         "PLUS" :> 10),
        \* 20: factor -> PLUS factor .
        ("$end" :> -14 @@ "DIVIDE" :> -14 @@ "MINUS" :> -14 @@
         "PLUS" :> -14 @@ "RPAREN" :> -14 @@ "SEMICOLON" :> -14 @@
         "TIMES" :> -14),
        \* 21: factor -> MINUS factor .
        ("$end" :> -15 @@ "DIVIDE" :> -15 @@ "MINUS" :> -15 @@
         "PLUS" :> -15 @@ "RPAREN" :> -15 @@ "SEMICOLON" :> -15 @@
         "TIMES" :> -15),
        \* 22: factor -> LPAREN expression . RPAREN
        ("RPAREN" :> 29),
        \* 23: assignment_list -> assignment SEMICOLON assignment_list .
        ("LPAREN" :> -4 @@ "MINUS" :> -4 @@ "NAME" :> -4 @@ "NUMBER" :> -4 @@
         "PLUS" :> -4),
        \* 24: assignment -> LET NAME EQUALS . expression
        ("LPAREN" :> 12 @@ "MINUS" :> 11 @@ "NAME" :> 8 @@ "NUMBER" :> 9 @@
         "PLUS" :> 10),
        \* 25: expression -> term PLUS term .
        ("$end" :> -6 @@ "RPAREN" :> -6 @@ "SEMICOLON" :> -6),
        \* 26: expression -> term MINUS term .
        ("$end" :> -7 @@ "RPAREN" :> -7 @@ "SEMICOLON" :> -7),
        \* 27: term -> factor TIMES factor .
        ("$end" :> -9 @@ "MINUS" :> -9 @@ "PLUS" :> -9 @@ "RPAREN" :> -9 @@
         "SEMICOLON" :> -9),
        \* 28: term -> factor DIVIDE factor .
        ("$end" :> -10 @@ "MINUS" :> -10 @@ "PLUS" :> -10 @@
         "RPAREN" :> -10 @@ "SEMICOLON" :> -10),
        \* 29: factor -> LPAREN expression RPAREN .
        ("$end" :> -16 @@ "DIVIDE" :> -16 @@ "MINUS" :> -16 @@
         "PLUS" :> -16 @@ "RPAREN" :> -16 @@ "SEMICOLON" :> -16 @@
         "TIMES" :> -16),
        \* 30: assignment -> LET NAME EQUALS expression .
        ("SEMICOLON" :> -5)
     >>,
     goto |-> <<
        ("assignment" :> 4 @@ "assignment_list" :> 2 @@ "expression" :> 3 @@ "factor" :> 7 @@ "program" :> 1 @@ "term" :> 6),   \* 0
        <<>>,   \* 1
        ("expression" :> 13 @@ "factor" :> 7 @@ "term" :> 6),   \* 2
        <<>>,   \* 3
        <<>>,   \* 4
        <<>>,   \* 5
        <<>>,   \* 6
        <<>>,   \* 7
        <<>>,   \* 8
        <<>>,   \* 9
        ("factor" :> 20),   \* 10
        ("factor" :> 21),   \* 11
        ("expression" :> 22 @@ "factor" :> 7 @@ "term" :> 6),   \* 12
        <<>>,   \* 13
        ("assignment" :> 4 @@ "assignment_list" :> 23),   \* 14
        <<>>,   \* 15
        ("factor" :> 7 @@ "term" :> 25),   \* 16
        ("factor" :> 7 @@ "term" :> 26),   \* 17
        ("factor" :> 27),   \* 18
        ("factor" :> 28),   \* 19
        <<>>,   \* 20
        <<>>,   \* 21
        <<>>,   \* 22
        <<>>,   \* 23
        ("expression" :> 30 @@ "factor" :> 7 @@ "term" :> 6),   \* 24
        <<>>,   \* 25
        <<>>,   \* 26
        <<>>,   \* 27
        <<>>,   \* 28
        <<>>,   \* 29
        <<>>   \* 30
     >>]

action(state) == LRTable.action[state + 1]
goto(state) == LRTable.goto[state + 1]

\* a state whose only action is one reduction is reduced without reading
\* the lookahead
Defaulted(state) ==
    /\ Cardinality(DOMAIN action(state)) = 1
    /\ \A ty \in DOMAIN action(state) : action(state)[ty] < 0
DefaultReduction(state) == action(state)[CHOOSE ty \in DOMAIN action(state) : TRUE]

NoToken == <<"None", "None">>
EndToken == <<"$end", "$end">>
ErrorToken(tok) == <<"error", tok>>
error_count == 3

Top(stack) == stack[Len(stack)]
DropLast(stack, n) == SubSeq(stack, 1, Len(stack) - n)
RECURSIVE Values(_)
Values(syms) ==
    IF syms = <<>> THEN <<>> ELSE <<ValueOf(Head(syms))>> \o Values(Tail(syms))

state == Top(statestack)

\* the lookahead the loop works with: the pending one, else the pushed-back
\* one, else the next token of the input, else $end
Fetched ==
    IF TypeOf(lookahead) # "None" THEN lookahead
    ELSE IF lookaheadstack # <<>> THEN Top(lookaheadstack)
    ELSE IF tokpos < Len(input) THEN input[tokpos + 1]
    ELSE EndToken
\* the input position and the push-back stack once that lookahead is taken
FetchedPos ==
    IF TypeOf(lookahead) = "None" /\ lookaheadstack = <<>> /\ tokpos < Len(input)
    THEN tokpos + 1 ELSE tokpos
FetchedStack ==
    IF TypeOf(lookahead) = "None" /\ lookaheadstack # <<>>
    THEN DropLast(lookaheadstack, 1) ELSE lookaheadstack

\* t of the parse loop is not None
HasAction == Defaulted(state) \/ TypeOf(Fetched) \in DOMAIN action(state)
\* t of the parse loop, when it is not None
T ==
    IF Defaulted(state) THEN DefaultReduction(state)
    ELSE action(state)[TypeOf(Fetched)]

NotReturned == [kind |-> "running", val |-> <<>>]

\* t > 0: shift the lookahead
ParseShift ==
    /\ ppc = "parse"
    /\ HasAction /\ T > 0
    /\ tokpos' = FetchedPos
    /\ lookaheadstack' = FetchedStack
    /\ statestack' = Append(statestack, T)
    /\ symstack' = Append(symstack, Fetched)
    /\ lookahead' = NoToken
    /\ errorcount' = IF errorcount > 0 THEN errorcount - 1 ELSE 0
    /\ UNCHANGED <<input, syntax_errors, ppc, presult>>
    /\ UNCHANGED <<lexvars, evalvars>>

\* t < 0: reduce by production -t, calling its grammar rule function
ParseReduce ==
    /\ ppc = "parse"
    /\ HasAction /\ T < 0
    /\ LET n == -T
           plen == Productions[n].len
           pname == Productions[n].name
           targ == SubSeq(symstack, Len(symstack) - plen + 1, Len(symstack))
           sym == <<pname, Callable(n, Values(targ))>>
           below == DropLast(statestack, plen)
       IN  /\ symstack' = Append(DropLast(symstack, plen), sym)
           /\ statestack' = Append(below, goto(Top(below))[pname])
    /\ IF Defaulted(state)
       THEN UNCHANGED <<lookahead, tokpos, lookaheadstack>>
       ELSE /\ lookahead' = Fetched
            /\ tokpos' = FetchedPos
            /\ lookaheadstack' = FetchedStack
    /\ UNCHANGED <<input, errorcount, syntax_errors, ppc, presult>>
    /\ UNCHANGED <<lexvars, evalvars>>

\* t == 0: accept, parse() returns the value on top of the stack
ParseAccept ==
    /\ ppc = "parse"
    /\ HasAction /\ T = 0
    /\ tokpos' = FetchedPos
    /\ lookaheadstack' = FetchedStack
    /\ lookahead' = Fetched
    /\ presult' = [kind |-> "value", val |-> ValueOf(Top(symstack))]
    /\ ppc' = "done"
    /\ UNCHANGED <<input, statestack, symstack, errorcount, syntax_errors>>
    /\ UNCHANGED <<lexvars, evalvars>>

\* p_error(p): print(f'Syntax error at {p.value!r}')
p_error(p) ==
    IF TypeOf(p) = "None"
    THEN /\ presult' = [kind |-> "AttributeError", val |-> <<>>]
         /\ ppc' = "done"
         /\ UNCHANGED syntax_errors
    ELSE /\ syntax_errors' = Append(syntax_errors, p)
         /\ UNCHANGED <<presult, ppc>>

\* t is None on a token of the input (or $end) and no error is being
\* recovered from: p_error is called with the token (None for $end)
ParseErrorReport ==
    /\ ppc = "parse"
    /\ ~HasAction
    /\ TypeOf(Fetched) # "error"
    /\ errorcount = 0
    /\ tokpos' = FetchedPos
    /\ lookaheadstack' = FetchedStack
    /\ lookahead' = Fetched
    /\ errorcount' = error_count
    /\ p_error(IF TypeOf(Fetched) = "$end" THEN NoToken ELSE Fetched)
    /\ UNCHANGED <<input, statestack, symstack>>
    /\ UNCHANGED <<lexvars, evalvars>>

\* t is None while errorcount is not zero: p_error is not called.  With the
\* stack rolled back the token is discarded; at $end parse() returns None;
\* otherwise the token is pushed back and an error symbol becomes the
\* lookahead, or, the lookahead being the error symbol, a state is popped.
ParseRecover ==
    /\ ppc = "parse"
    /\ ~HasAction
    /\ errorcount # 0
    /\ errorcount' = error_count
    /\ tokpos' = FetchedPos
    /\ IF Len(statestack) <= 1 /\ TypeOf(Fetched) # "$end"
       THEN /\ lookahead' = NoToken
            /\ lookaheadstack' = <<>>
            /\ UNCHANGED <<statestack, symstack, ppc, presult>>
       ELSE IF TypeOf(Fetched) = "$end"
       THEN /\ lookahead' = Fetched
            /\ lookaheadstack' = FetchedStack
            /\ presult' = [kind |-> "None", val |-> <<>>]
            /\ ppc' = "done"
            /\ UNCHANGED <<statestack, symstack>>
       ELSE IF TypeOf(Fetched) # "error"
       THEN /\ lookahead' = ErrorToken(Fetched)
            /\ lookaheadstack' = Append(FetchedStack, Fetched)
            /\ UNCHANGED <<statestack, symstack, ppc, presult>>
       ELSE /\ symstack' = DropLast(symstack, 1)
            /\ statestack' = DropLast(statestack, 1)
            /\ lookaheadstack' = FetchedStack
            /\ UNCHANGED <<lookahead, ppc, presult>>
    /\ UNCHANGED <<input, syntax_errors>>
    /\ UNCHANGED <<lexvars, evalvars>>

\* ------------------------------------------------------------------------
\* Python values
\* ------------------------------------------------------------------------
IntVal(n) == [kind |-> "int", val |-> n]
TupleVal(t) == [kind |-> "tuple", val |-> t]
Raised(v) == v.kind \in {"NameError", "TypeError"}

\* Python's  l + r  on the values the evaluator handles: integers add,
\* tuples concatenate, a mix raises TypeError.  An exception raised while
\* computing an operand (left first) propagates.
PyAdd(l, r) ==
    IF Raised(l) THEN l
    ELSE IF Raised(r) THEN r
    ELSE IF l.kind = "int" /\ r.kind = "int" THEN IntVal(l.val + r.val)
    ELSE IF l.kind = "tuple" /\ r.kind = "tuple" THEN TupleVal(l.val \o r.val)
    ELSE [kind |-> "TypeError", val |-> "+"]

\* Python's  l - r : defined on integers only.
PySub(l, r) ==
    IF Raised(l) THEN l
    ELSE IF Raised(r) THEN r
    ELSE IF l.kind = "int" /\ r.kind = "int" THEN IntVal(l.val - r.val)
    ELSE [kind |-> "TypeError", val |-> "-"]

\* ------------------------------------------------------------------------
\* Evaluator (src/main.py 202-231)
\* ------------------------------------------------------------------------
\* an evaluator that reads an unassigned symbol as 0
RECURSIVE evaluateExpression_DefaultZero(_, _)
evaluateExpression_DefaultZero(expr, table) ==
    IF expr[1] = "binop" THEN
        IF expr[2] = "+" THEN
            PyAdd(evaluateExpression_DefaultZero(expr[3], table),
                  evaluateExpression_DefaultZero(expr[4], table))
        ELSE IF expr[2] = "-" THEN
            PySub(evaluateExpression_DefaultZero(expr[3], table),
                  evaluateExpression_DefaultZero(expr[4], table))
        ELSE TupleVal(expr)
    ELSE IF expr[1] = "name" THEN
        IF expr[2] \in DOMAIN table THEN table[expr[2]] ELSE IntVal(0)
    ELSE IF expr[1] = "number" THEN IntVal(expr[2])
    ELSE TupleVal(expr)

RECURSIVE evaluateExpression(_, _)
evaluateExpression(expr, table) ==
    IF expr[1] = "binop" THEN
        IF expr[2] = "+" THEN
            PyAdd(evaluateExpression(expr[3], table),
                  evaluateExpression(expr[4], table))
        ELSE IF expr[2] = "-" THEN
            PySub(evaluateExpression(expr[3], table),
                  evaluateExpression(expr[4], table))
        ELSE TupleVal(expr)
    ELSE IF expr[1] = "name" THEN
        IF expr[2] \in DOMAIN table
        THEN table[expr[2]]
        ELSE [kind |-> "NameError", val |-> expr[2]]
    ELSE IF expr[1] = "number" THEN IntVal(expr[2])
    ELSE TupleVal(expr)

EmptyTable == [n \in {} |-> IntVal(0)]

\* a table that keeps the first value bound to a name
Bind_KeepFirst(table, name, value) ==
    [n \in DOMAIN table \cup {name} |->
        IF n \in DOMAIN table THEN table[n] ELSE value]

\* symbol_table[name] = value
Bind(table, name, value) ==
    [n \in DOMAIN table \cup {name} |->
        IF n = name THEN value ELSE table[n]]

NoResult == [kind |-> "none", val |-> 0]

\* populateSymbols(symbol_list) from iteration k of its loop on: the dict it
\* returns (kind "dict"), or the exception an iteration raises
RECURSIVE populateSymbolsFrom(_, _, _)
populateSymbolsFrom(symbol_list, k, table) ==
    IF k >= Len(symbol_list) THEN [kind |-> "dict", val |-> table]
    ELSE IF k % 2 = 0 THEN
        IF k + 2 > Len(symbol_list)
        THEN [kind |-> "IndexError", val |-> k + 1]
        ELSE LET value == evaluateExpression(symbol_list[k + 2], table) IN
             IF Raised(value) THEN value
             ELSE populateSymbolsFrom(symbol_list, k + 1,
                                      Bind(table, symbol_list[k + 1], value))
    ELSE populateSymbolsFrom(symbol_list, k + 1, table)

populateSymbols(symbol_list) == populateSymbolsFrom(symbol_list, 0, EmptyTable)

\* evaluate(ast), line 228: dispatch on ast[0]
EvaluateCall ==
    /\ epc = "call"
    /\ IF ast[1] = "assignments"
       THEN /\ epc' = "populate"
            /\ i' = 0
            /\ symbol_table' = EmptyTable
            /\ UNCHANGED result
       ELSE /\ epc' = "done"
            /\ result' = evaluateExpression(ast, EmptyTable)
            /\ UNCHANGED <<i, symbol_table>>
    /\ UNCHANGED ast
    /\ UNCHANGED <<lexvars, parsevars>>

\* populateSymbols, lines 221-223, an iteration with i % 2 == 0:
\* symbol_table[symbol_list[i]] = evaluateExpression(symbol_list[i+1], symbol_table)
PopulateBind ==
    /\ epc = "populate"
    /\ i < Len(ast[2])
    /\ i % 2 = 0
    /\ IF i + 2 > Len(ast[2])
       THEN /\ epc' = "done"
            /\ result' = [kind |-> "IndexError", val |-> i + 1]
            /\ UNCHANGED <<i, symbol_table>>
       ELSE LET value == evaluateExpression(ast[2][i + 2], symbol_table) IN
            IF Raised(value)
            THEN /\ epc' = "done"
                 /\ result' = value
                 /\ UNCHANGED <<i, symbol_table>>
            ELSE /\ symbol_table' = Bind(symbol_table, ast[2][i + 1], value)
                 /\ i' = i + 1
                 /\ UNCHANGED <<epc, result>>
    /\ UNCHANGED ast
    /\ UNCHANGED <<lexvars, parsevars>>

\* populateSymbols, lines 221-222, an iteration with i % 2 == 1: nothing
PopulateSkip ==
    /\ epc = "populate"
    /\ i < Len(ast[2])
    /\ i % 2 = 1
    /\ i' = i + 1
    /\ UNCHANGED <<ast, epc, symbol_table, result>>
    /\ UNCHANGED <<lexvars, parsevars>>

\* populateSymbols returns (line 224) and evaluate() evaluates ast[2]
\* against the returned table (line 229)
EvaluateResult ==
    /\ epc = "populate"
    /\ i = Len(ast[2])
    /\ epc' = "done"
    /\ result' = evaluateExpression(ast[3], symbol_table)
    /\ UNCHANGED <<ast, i, symbol_table>>
    /\ UNCHANGED <<lexvars, parsevars>>


\* ------------------------------------------------------------------------
\* Inputs of the evaluator: trees the grammar of lines 94-186 can produce
\* ------------------------------------------------------------------------
Number(n) == <<"number", n>>
Name(n) == <<"name", n>>
BinOp(op, l, r) == <<"binop", op, l, r>>
Unary(op, f) == <<"unary", op, f>>
Grouped(e) == <<"grouped", e>>

Atoms == {Number(n) : n \in 0..MaxNum} \cup {Name(n) : n \in Names}
Factors1 == Atoms \cup {Unary(op, f) : op \in {"+", "-"}, f \in Atoms}
                  \cup {Grouped(e) : e \in Atoms}
Terms1 == Factors1 \cup {BinOp(op, l, r) : op \in {"*", "/"}, l \in Atoms, r \in Atoms}
Exprs1 == Terms1 \cup {BinOp(op, l, r) : op \in {"+", "-"}, l \in Atoms, r \in Atoms}
Factors2 == Atoms \cup {Unary(op, f) : op \in {"+", "-"}, f \in Factors1}
                  \cup {Grouped(e) : e \in Exprs1}
Terms2 == Factors2 \cup {BinOp(op, l, r) : op \in {"*", "/"}, l \in Factors1, r \in Factors1}
Exprs2 == Terms2 \cup {BinOp(op, l, r) : op \in {"+", "-"}, l \in Terms1, r \in Terms1}

\* value expressions of generated assignments
ValueExprs == Atoms \cup {BinOp("+", Name(n), Number(1)) : n \in Names}
                    \cup {BinOp("*", Name("x"), Name("y"))}

\* flat assignment lists (name, value, name, value, ...) of k assignments
RECURSIVE AssignmentLists(_)
AssignmentLists(k) ==
    IF k = 0 THEN {<<>>}
    ELSE {<<n, v>> \o rest : n \in Names, v \in ValueExprs,
                               rest \in AssignmentLists(k - 1)}

GeneratedPrograms ==
    Exprs2 \cup
    {<<"assignments", al, e>> : al \in UNION {AssignmentLists(k) : k \in 1..MaxAssign},
                                e \in ValueExprs}

\* the programs named in the specification, as the parser builds them
Prog_3p4t5 == BinOp("+", Number(3), BinOp("*", Number(4), Number(5)))
Prog_10d0 == BinOp("/", Number(10), Number(0))
Prog_10d3 == BinOp("/", Number(10), Number(3))
Prog_xp1 == BinOp("+", Name("x"), Number(1))
Prog_18 == <<"assignments",
             <<"x", Number(2), "y", BinOp("+", Number(4), Name("x"))>>,
             BinOp("*", Grouped(BinOp("+", Name("y"), Number(3))), Name("x"))>>
ExamplePrograms == {Prog_3p4t5, Prog_10d0, Prog_10d3, Prog_xp1, Prog_18}

\* ------------------------------------------------------------------------
\* Inputs of the lexer and of the parser
\* ------------------------------------------------------------------------
MaxSource == 3
SourceAlphabet == {"l", "e", "t", "L", "E", "T", "1", "0", "U+0663", "x", "_", "#",
                   ";", " ", "\n"}
RECURSIVE Strings(_, _)
Strings(alphabet, n) ==
    IF n = 0 THEN {<<>>}
    ELSE LET shorter == Strings(alphabet, n - 1)
         IN  shorter \cup {Append(w, c) : w \in {v \in shorter : Len(v) = n - 1},
                                           c \in alphabet}
Src_let_x_3_hash_5 == <<"l", "e", "t", " ", "x", "=", "3", ";", "#", "5">>
Src_let1 == <<"l", "e", "t", "1">>
Src_example == <<"l", "e", "t", " ", "x", "=", "2", ";", "l", "e", "t", " ", "y",
                 "=", "4", "+", "x", ";", "(", "y", "+", "3", ")", "*", "x">>
Src_lines == <<"1", "0", "\n", "\n", "\t", "$", "/", "-", "@", "q">>
Src_digits == <<"x", "U+0663", "5", "U+FF11", " ", "1", "U+0663">>
ExampleSources == {Src_let_x_3_hash_5, Src_let1, Src_example, Src_lines, Src_digits}

Idle ==
    /\ lexdata = <<>> /\ lexpos = 0 /\ lineno = 1 /\ tokens = <<>>
    /\ illegal = <<>> /\ lpc = "off"
ParserOff ==
    /\ input = <<>> /\ tokpos = 0 /\ statestack = <<0>> /\ symstack = <<EndToken>>
    /\ lookahead = NoToken /\ lookaheadstack = <<>> /\ errorcount = 0
    /\ syntax_errors = <<>> /\ ppc = "off" /\ presult = NotReturned
EvaluatorIdle ==
    /\ ast = <<"none">> /\ epc = "idle" /\ i = 0
    /\ symbol_table = EmptyTable /\ result = NoResult

LexInit ==
    /\ lexdata \in Strings(SourceAlphabet, MaxSource) \cup ExampleSources
    /\ lexpos = 0
    /\ lineno = 1
    /\ tokens = <<>>
    /\ illegal = <<>>
    /\ lpc = "scan"
    /\ ParserOff
    /\ EvaluatorIdle

LexNext == LexIgnore \/ LexNumber \/ LexName \/ LexNewline \/ LexOperator
              \/ t_error \/ LexEnd

SpecLex == LexInit /\ [][LexNext]_vars

EvalInit ==
    /\ ast \in GeneratedPrograms \cup ExamplePrograms
    /\ epc = "call"
    /\ i = 0
    /\ symbol_table = EmptyTable
    /\ result = NoResult
    /\ Idle
    /\ ParserOff

EvalNext == EvaluateCall \/ PopulateBind \/ PopulateSkip \/ EvaluateResult

SpecEval == EvalInit /\ [][EvalNext]_vars

MaxTokens == 3
Tok(c) == Token(OperatorType(c), c)
LetTok == Token("LET", "let")
NameTok(n) == Token("NAME", n)
NumberTok(n) == Token("NUMBER", n)
TokenAlphabet ==
    {LetTok, NameTok("x"), NumberTok(1)} \cup {Tok(c) : c \in Operators}
OperandTokens == {NameTok("x"), NameTok("y"), NumberTok(1)}
BinaryOperators == {"+", "-", "*", "/"}

\* operand operator operand operator operand, bare and in parentheses
ChainInputs ==
    LET chains == {<<a, Tok(o1), b, Tok(o2), c>> :
                      a \in OperandTokens, b \in OperandTokens, c \in OperandTokens,
                      o1 \in BinaryOperators, o2 \in BinaryOperators}
    IN  chains \cup {<<Tok("(")>> \o w \o <<Tok(")")>> : w \in chains}

TokenExprs ==
    { <<NumberTok(1)>>, <<NameTok("x")>>,
      <<NameTok("x"), Tok("+"), NumberTok(1)>>,
      <<Tok("("), NameTok("y"), Tok(")"), Tok("*"), NameTok("x")>> }
AssignmentTokens(n, e) == <<LetTok, NameTok(n), Tok("=")>> \o e \o <<Tok(";")>>
RECURSIVE AssignmentSeqs(_)
AssignmentSeqs(k) ==
    IF k = 0 THEN {<<>>}
    ELSE {AssignmentTokens(n, e) \o rest :
             n \in Names, e \in TokenExprs, rest \in AssignmentSeqs(k - 1)}
SomeAssignments == UNION {AssignmentSeqs(k) : k \in 1..MaxAssign}

\* assignments then an expression; assignments only; an expression, a
\* semicolon and then assignments
ProgramInputs ==
    {as \o e : as \in SomeAssignments, e \in TokenExprs}
    \cup SomeAssignments
    \cup {e \o <<Tok(";")>> \o as : e \in TokenExprs, as \in SomeAssignments}
    \cup {SubSeq(as, 1, Len(as) - 1) : as \in AssignmentSeqs(1)}

\* let x=2;let y=4+x;(y+3)*x
Toks_example ==
    AssignmentTokens("x", <<NumberTok(2)>>)
    \o AssignmentTokens("y", <<NumberTok(4), Tok("+"), NameTok("x")>>)
    \o <<Tok("("), NameTok("y"), Tok("+"), NumberTok(3), Tok(")"), Tok("*"), NameTok("x")>>
\* let x=3; let y=4; 3+x*y;let z=3;
Toks_invalid ==
    AssignmentTokens("x", <<NumberTok(3)>>) \o AssignmentTokens("y", <<NumberTok(4)>>)
    \o <<NumberTok(3), Tok("+"), NameTok("x"), Tok("*"), NameTok("y"), Tok(";")>>
    \o AssignmentTokens("z", <<NumberTok(3)>>)
\* 3+4*5
Toks_3p4t5 == <<NumberTok(3), Tok("+"), NumberTok(4), Tok("*"), NumberTok(5)>>
ExampleInputs == {Toks_example, Toks_invalid, Toks_3p4t5}

ParseInit ==
    /\ input \in Strings(TokenAlphabet, MaxTokens) \cup ChainInputs
                  \cup ProgramInputs \cup ExampleInputs
    /\ tokpos = 0
    /\ statestack = <<0>>
    /\ symstack = <<EndToken>>
    /\ lookahead = NoToken
    /\ lookaheadstack = <<>>
    /\ errorcount = 0
    /\ syntax_errors = <<>>
    /\ ppc = "parse"
    /\ presult = NotReturned
    /\ Idle
    /\ EvaluatorIdle

ParseNext == ParseShift \/ ParseReduce \/ ParseAccept \/ ParseErrorReport
                \/ ParseRecover

SpecParse == ParseInit /\ [][ParseNext]_vars

\* ------------------------------------------------------------------------
\* Properties of the lexer
\* ------------------------------------------------------------------------
IsIdentifier(chars) ==
    /\ chars # <<>>
    /\ chars[1] \in NameStart
    /\ \A k \in 2..Len(chars) : chars[k] \in NameChar
IdentifierTokens == {k \in 1..Len(tokens) : TypeOf(tokens[k]) \in {"LET", "NAME"}}

\* C8 as stated: an identifier run is a LET token only when its text is
\* exactly the lowercase word let; LET, Let, let1 ... are NAME tokens.
C8_OnlyLowercaseLet ==
    lpc = "done" =>
        \A k \in IdentifierTokens :
            TypeOf(tokens[k]) = "LET" <=> ValueOf(tokens[k]) = "let"

\* C8 amended: an identifier run is a LET token exactly when its text is
\* let or LET; every other maximal identifier run (Let, let1, ...) is a
\* NAME token carrying its text.
C8_LetOrUppercaseLet ==
    lpc = "done" =>
        /\ \A k \in IdentifierTokens :
              TypeOf(tokens[k]) = "LET" <=> ValueOf(tokens[k]) \in {"let", "LET"}
        /\ IsIdentifier(lexdata) =>
              /\ Len(tokens) = 1
              /\ ValueOf(tokens[1]) = Text(lexdata)
              /\ TypeOf(tokens[1]) =
                    IF Text(lexdata) \in {"let", "LET"} THEN "LET" ELSE "NAME"

\* the uppercase word is a LET token, a mixed-case one is a NAME token
C8_Witness ==
    /\ lpc = "done"
    /\ lexdata = <<"L", "E", "T">>
    /\ tokens = <<Token("LET", "LET")>>

IllegalChar(c) ==
    c \notin t_ignore \cup Digits \cup NameStart \cup {"\n"} \cup Operators
\* the legal tokens of a text, in source order
RECURSIVE LegalTokens(_, _)
LegalTokens(data, pos) ==
    IF pos >= Len(data) THEN <<>>
    ELSE LET c == CharAt(data, pos) IN
         IF c \in Digits
         THEN LET end == RunEnd(data, pos, Digits)
              IN  <<Token("NUMBER", int(Slice(data, pos, end)))>> \o LegalTokens(data, end)
         ELSE IF c \in NameStart
         THEN LET end == RunEnd(data, pos + 1, NameChar)
                  value == Text(Slice(data, pos, end))
              IN  <<Token(IF value \in {"let", "LET"} THEN "LET" ELSE "NAME", value)>>
                  \o LegalTokens(data, end)
         ELSE IF c \in Operators
         THEN <<Token(OperatorType(c), c)>> \o LegalTokens(data, pos + 1)
         ELSE LegalTokens(data, pos + 1)

\* C9: an illegal character is reported and exactly that character is
\* skipped: lexing reaches the end of the input, every illegal character is
\* reported once in source order, and the tokens emitted are the legal
\* tokens of the text before it followed by those of the text after it.
C9_IllegalCharacterSkipped ==
    lpc = "done" =>
        /\ lexpos = Len(lexdata)
        /\ illegal = SelectSeq(lexdata, IllegalChar)
        /\ \A p \in 1..Len(lexdata) :
              IllegalChar(lexdata[p]) =>
                  tokens = LegalTokens(SubSeq(lexdata, 1, p - 1), 0)
                           \o LegalTokens(SubSeq(lexdata, p + 1, Len(lexdata)), 0)
        /\ lexdata = Src_let_x_3_hash_5 =>
              /\ tokens = <<Token("LET", "let"), Token("NAME", "x"), Token("EQUALS", "="),
                            Token("NUMBER", 3), Token("SEMICOLON", ";"), Token("NUMBER", 5)>>
              /\ illegal = <<"#">>

\* let x=3;#5 has been lexed to the end with one report
C9_Witness ==
    /\ lpc = "done"
    /\ lexdata = Src_let_x_3_hash_5
    /\ illegal = <<"#">>
    /\ Len(tokens) = 6
    /\ tokens[6] = Token("NUMBER", 5)

\* ------------------------------------------------------------------------
\* Properties of the parser
\* ------------------------------------------------------------------------
Additive == {"PLUS", "MINUS"}
Multiplicative == {"TIMES", "DIVIDE"}
SameLevel(a, b) ==
    \/ TypeOf(a) \in Additive /\ TypeOf(b) \in Additive
    \/ TypeOf(a) \in Multiplicative /\ TypeOf(b) \in Multiplicative
IsOperand(tok) == TypeOf(tok) \in {"NAME", "NUMBER"}
\* at token k, outside parentheses, an expression starts that chains a
\* second operator of the same level: operand operator operand operator
ChainAt(k) ==
    /\ k + 3 <= Len(input)
    /\ k = 1 \/ TypeOf(input[k - 1]) = "EQUALS"
    /\ IsOperand(input[k]) /\ IsOperand(input[k + 2])
    /\ SameLevel(input[k + 1], input[k + 3])
Reported(tok) == \E j \in 1..Len(syntax_errors) : syntax_errors[j] = tok

\* a tree in which every + or - has terms as operands and every * or / has
\* factors as operands: no operator is applied twice at one level
RECURSIVE SingleApplication(_)
SingleApplication(tree) ==
    IF tree[1] = "binop" THEN
        /\ tree[2] \in {"+", "-"} =>
              /\ ~(tree[3][1] = "binop" /\ tree[3][2] \in {"+", "-"})
              /\ ~(tree[4][1] = "binop" /\ tree[4][2] \in {"+", "-"})
        /\ tree[2] \in {"*", "/"} => tree[3][1] # "binop" /\ tree[4][1] # "binop"
        /\ SingleApplication(tree[3])
        /\ SingleApplication(tree[4])
    ELSE IF tree[1] = "unary" THEN SingleApplication(tree[3])
    ELSE IF tree[1] = "grouped" THEN SingleApplication(tree[2])
    ELSE IF tree[1] = "assignments" THEN
        /\ \A k \in 1..(Len(tree[2]) \div 2) : SingleApplication(tree[2][2 * k])
        /\ SingleApplication(tree[3])
    ELSE TRUE

\* C6: an input that chains a second operator of the same level after
\* operand OP operand  is rejected with a syntax error: the chained operator
\* is reported and parse() returns no tree; and no tree the parser returns
\* applies an operator twice at one level.
C6_NoOperatorChain ==
    ppc = "done" =>
        /\ \A k \in 1..Len(input) :
              ChainAt(k) => /\ Reported(input[k + 3])
                            /\ presult.kind # "value"
        /\ presult.kind = "value" => SingleApplication(presult.val)

\* the last statement of the input is an assignment
EndsWithAssignment ==
    \E k \in 1..(Len(input) - 3) :
        /\ TypeOf(input[k]) = "LET"
        /\ TypeOf(input[k + 1]) = "NAME"
        /\ TypeOf(input[k + 2]) = "EQUALS"
        /\ TypeOf(input[k + 3]) # "SEMICOLON"
        /\ k = 1 \/ TypeOf(input[k - 1]) = "SEMICOLON"
        /\ \A j \in (k + 1)..(Len(input) - 1) : TypeOf(input[j]) # "SEMICOLON"

\* C7: an input whose last statement is an assignment is a syntax error
\* reported for the unexpected token, and parse() returns no tree.
C7_TrailingAssignment ==
    (ppc = "done" /\ EndsWithAssignment) =>
        /\ presult.kind # "value"
        /\ syntax_errors # <<>>

LetPositions == {k \in 1..Len(input) : TypeOf(input[k]) = "LET"}
KthLet(k) == CHOOSE p \in LetPositions : Cardinality({q \in LetPositions : q <= p}) = k
KthDeclared(k) == ValueOf(input[KthLet(k) + 1])
ExpressionTags == {"number", "name", "binop", "unary", "grouped"}

\* C10: the assignment list of a program with n >= 1 assignments is the flat
\* sequence name, value, name, value ... of length 2n in declaration order,
\* so populateSymbols applied to it never indexes past its end, and after
\* the k-th pair it has bound exactly the first k declared names.
C10_FlatAssignmentList ==
    (/\ syntax_errors = <<>>
     /\ ppc = "done" /\ presult.kind = "value"
     /\ presult.val[1] = "assignments") =>
        LET list == presult.val[2]
            n == Cardinality(LetPositions)
        IN  /\ n >= 1
            /\ Len(list) = 2 * n
            /\ \A k \in 1..n : /\ list[2 * k - 1] = KthDeclared(k)
                                /\ list[2 * k][1] \in ExpressionTags
            /\ populateSymbols(list).kind # "IndexError"
            /\ \A k \in 1..n :
                  LET bound == populateSymbols(SubSeq(list, 1, 2 * k)) IN
                  bound.kind = "dict" =>
                      DOMAIN bound.val = {KthDeclared(j) : j \in 1..k}

\* two assignments of different names and an expression have been parsed
C10_Witness ==
    /\ ppc = "done"
    /\ syntax_errors = <<>>
    /\ presult.kind = "value"
    /\ presult.val[1] = "assignments"
    /\ Len(presult.val[2]) = 4
    /\ presult.val[2][1] # presult.val[2][3]

\* ------------------------------------------------------------------------
\* Properties of the evaluator
\* ------------------------------------------------------------------------
SameValue(v, w) == v.kind = w.kind /\ v.val = w.val
SameTable(a, b) ==
    /\ DOMAIN a = DOMAIN b
    /\ \A n \in DOMAIN a : SameValue(a[n], b[n])
IsInt(v, n) == v.kind = "int" /\ v.val = n

NumAssignments == Len(ast[2]) \div 2
DeclaredName(list, k) == list[2 * k - 1]
DeclaredValue(list, k) == list[2 * k]
LastDeclaration(list, k, n) ==
    CHOOSE j \in 1..k :
        /\ DeclaredName(list, j) = n
        /\ \A m \in (j + 1)..k : DeclaredName(list, m) # n

\* The table holding exactly the bindings of assignments 1..k of the list:
\* each declared name is bound to the value of its last declaration, which
\* was evaluated against the table of the declarations before it.
RECURSIVE TableAfter(_, _)
TableAfter(list, k) ==
    [n \in {DeclaredName(list, j) : j \in 1..k} |->
        LET j == LastDeclaration(list, k, n)
        IN  evaluateExpression(DeclaredValue(list, j), TableAfter(list, j - 1))]

\* C1: assignments are processed strictly in declaration order: while the
\* k-th assignment is being processed the table holds exactly the bindings
\* of assignments 1..k-1 (later ones overwriting earlier ones of the same
\* name), the k-th value is evaluated against that table, and the trailing
\* expression is evaluated against the table after all assignments.
C1_DeclarationOrder ==
    ast[1] = "assignments" =>
        /\ epc = "populate" =>
              SameTable(symbol_table, TableAfter(ast[2], (i + 1) \div 2))
        /\ (epc = "done" /\ i = Len(ast[2])) =>
              SameValue(result,
                        evaluateExpression(ast[3], TableAfter(ast[2], NumAssignments)))
        /\ (epc = "done" /\ i < Len(ast[2])) =>
              /\ i % 2 = 0
              /\ Raised(result)
              /\ SameValue(result,
                           evaluateExpression(ast[2][i + 2], TableAfter(ast[2], i \div 2)))

\* a later assignment has overwritten an earlier binding of the same name
\* with a different value, and the result was computed from it
C1_Witness ==
    /\ epc = "done"
    /\ ast[1] = "assignments"
    /\ i = 4
    /\ ast[2][1] = ast[2][3]
    /\ ast[2][4] = BinOp("+", Name(ast[2][1]), Number(1))
    /\ ast[3] = Name(ast[2][1])
    /\ ast[2][2] = Number(1)
    /\ IsInt(result, 2)

IntOperand(e) == e[1] = "number"
ApplyOp(op, l, r) ==
    IF op = "+" THEN l + r
    ELSE IF op = "-" THEN l - r
    ELSE IF op = "*" THEN l * r
    ELSE l \div r

\* C2: a BinaryOp with operator + - * / over integer operands (divisor not
\* zero) evaluates to the integer the operator gives; 3+4*5 evaluates to 23.
C2_BinaryOpArithmetic ==
    epc = "done" =>
        /\ (/\ ast[1] = "binop"
            /\ IntOperand(ast[3]) /\ IntOperand(ast[4])
            /\ ~(ast[2] = "/" /\ ast[4][2] = 0))
           => IsInt(result, ApplyOp(ast[2], ast[3][2], ast[4][2]))
        /\ ast = Prog_3p4t5 => IsInt(result, 23)

\* C3: a division by zero fails with a division-by-zero error, a division
\* by a non-zero divisor gives the integer quotient (10/3 is 3).
C3_Division ==
    (/\ epc = "done"
     /\ ast[1] = "binop" /\ ast[2] = "/"
     /\ IntOperand(ast[3]) /\ IntOperand(ast[4]))
    => IF ast[4][2] = 0
       THEN result.kind = "ZeroDivisionError"
       ELSE IsInt(result, ast[3][2] \div ast[4][2])

\* C4: Grouped(inner) evaluates to what inner evaluates to; the program
\* let x=2;let y=4+x;(y+3)*x evaluates to 18.
C4_GroupedTransparent ==
    epc = "done" =>
        /\ (ast[1] = "grouped" /\ evaluateExpression(ast[2], EmptyTable).kind = "int") =>
              SameValue(result, evaluateExpression(ast[2], EmptyTable))
        /\ ast = Prog_18 => IsInt(result, 18)

\* the expression whose evaluation ended the call, and the table it saw
LastEvaluated ==
    IF ast[1] # "assignments" THEN ast
    ELSE IF i < Len(ast[2]) THEN ast[2][i + 2]
    ELSE ast[3]
NameOperand(e) == IF e[1] = "name" THEN <<e[2]>> ELSE <<>>
\* the name references evaluation reaches in a tree of the grammar, in order
NamesReached(e) ==
    IF e[1] = "name" THEN <<e[2]>>
    ELSE IF e[1] = "binop" /\ e[2] \in {"+", "-"}
         THEN NameOperand(e[3]) \o NameOperand(e[4])
    ELSE <<>>
IsUnbound(n) == n \notin DOMAIN symbol_table
UnboundReached == SelectSeq(NamesReached(LastEvaluated), IsUnbound)

\* C5: when evaluation reaches a name reference that is not bound in the
\* current table, it fails with an undefined-name error naming that name
\* and returns no integer.
C5_UndefinedName ==
    (epc = "done" /\ UnboundReached # <<>>) =>
        /\ result.kind = "NameError"
        /\ result.val = Head(UnboundReached)

\* the first assignment refers to a name that only a later one declares
C5_Witness ==
    /\ epc = "done"
    /\ ast[1] = "assignments"
    /\ Len(ast[2]) = 4
    /\ i = 0
    /\ ast[2][2] = Name(ast[2][3])
    /\ ast[2][1] # ast[2][3]
    /\ result.kind = "NameError"
    /\ result.val = ast[2][3]

====
